---- MODULE Spec2Model ----
(***************************************************************************)
(* A model of VideoSegmentAnnotator (src/video_annotator.py): the playback *)
(* and seek controller, the segment ledger, video navigation, the segment  *)
(* exporter and the dataset unifier.                                       *)
(*                                                                         *)
(* Numbers.  cv2 reports the frame rate as a float.  The model keeps a     *)
(* frame rate as a pair <<n, d>> (n/d frames per second, d > 0) and a time *)
(* in seconds as a pair <<n, d>> as well, and computes the code's float    *)
(* expressions exactly.  The videos of the model have the frame rates 1/2  *)
(* and 1, and the scrub bar takes the values 0, 50 and 100: every float    *)
(* operation the code performs on these is exact in IEEE arithmetic.  The  *)
(* one inexact value is -1/30 (frame -1 at the initial rate of 30), which  *)
(* the code only compares with 0 and truncates after scaling, with the     *)
(* results the exact computation gives.                                    *)
(***************************************************************************)
EXTENDS Integers, Sequences, FiniteSets, TLC

VARIABLES
    video_files,          \* self.video_files: the sorted names found by load_videos
    current_video_index,  \* self.current_video_index (0-based, as in the code)
    current_video_path,   \* self.current_video_path (the file's stem)
    cap_opened,           \* self.cap.isOpened()
    total_frames,         \* self.total_frames
    fps,                  \* self.fps, a pair <<n, d>>
    video_duration,       \* self.video_duration, a pair <<n, d>>
    is_playing,           \* self.is_playing
    current_frame,        \* self.current_frame
    segments,             \* self.segments: sequence of <<start, end>>
    temp_start_time,      \* self.temp_start_time: a time, or None
    threads,              \* the live play_loop threads, counted by position
    notice,               \* what the last handler reported: its message box, or
                          \* else the status text it set, or else "none"
    exporting,            \* the export_segments calls in progress, innermost last
    export_runs,          \* how many export runs were started
    dispatched,           \* handlers run inside root.update() by the runs in progress
    segment_videos,       \* segments/videos: clip name -> number of frames
    segment_frames,       \* segments/frames: folder name -> [frames, metadata]
    frames_dir,           \* segments/frames itself: does it exist, and does it
                          \* hold plain files next to the segment folders
    unified_dataset,      \* unified_dataset: its directories and files
    unifying,             \* the create_unified_dataset call in progress, or None
    unify_runs            \* how many times Create Dataset was pressed

vars == <<video_files, current_video_index, current_video_path, cap_opened,
          total_frames, fps, video_duration, is_playing, current_frame,
          segments, temp_start_time, threads, notice, exporting, export_runs,
          dispatched, segment_videos, segment_frames, frames_dir,
          unified_dataset, unifying, unify_runs>>

videoVars == <<video_files, current_video_index, current_video_path, cap_opened,
               total_frames, fps, video_duration>>
unifyVars == <<frames_dir, unified_dataset, unifying, unify_runs>>
diskVars == <<segment_videos, segment_frames, unifyVars>>

(***************************************************************************)
(* Bounds of the model.                                                    *)
(***************************************************************************)
MaxThreads == 2
MaxSegments == 2
MaxExportDepth == 1
MaxExportRuns == 2
MaxDispatched == 1
MaxUnifyRuns == 2
MaxFolderFrames == 2

(***************************************************************************)
(* The videos folder and what cv2 reports for each file.                   *)
(***************************************************************************)
\* The video files of the videos folder, as load_videos sorts them.
VideosDir == <<"a", "b", "c">>

\* "a" is a file cv2 cannot open; "b" has 3 frames at 0.5 frames per second,
\* "c" has 2 frames at 1 frame per second.
isOpened(v) == v \in {"b", "c"}

CAP_PROP_FRAME_COUNT(v) ==
    IF ~isOpened(v) THEN 0 ELSE IF v = "b" THEN 3 ELSE 2

CAP_PROP_FPS(v) ==
    IF ~isOpened(v) THEN <<0, 1>> ELSE IF v = "b" THEN <<1, 2>> ELSE <<1, 1>>

\* self.fps = 30 in __init__
InitialFps == 30

\* The positions the user can drag the scrub bar to (ttk.Scale from_=0, to=100).
ProgressValues == {0, 50, 100}

(***************************************************************************)
(* Arithmetic of the code.                                                 *)
(***************************************************************************)
None == <<>>

\* int(x) of a float x = n/d, d > 0: truncation towards zero.
int(n, d) == IF n >= 0 THEN n \div d ELSE -((-n) \div d)

Min(x, y) == IF x <= y THEN x ELSE y
Max(x, y) == IF x >= y THEN x ELSE y

\* frame / fps if fps > 0 else 0
TimeOf(frame, f) == IF f[1] > 0 THEN <<frame * f[2], f[1]>> ELSE <<0, 1>>

\* t <= u and t < u for times
TimeLeq(t, u) == t[1] * u[2] <= u[1] * t[2]
TimeLess(t, u) == t[1] * u[2] < u[1] * t[2]

\* int(t * fps)
FrameOf(t, f) == int(t[1] * f[1], t[2] * f[2])

\* int(5 * self.fps)
skip_frames == int(5 * fps[1], fps[2])

(***************************************************************************)
(* A handler runs from the main loop, or inside the root.update() of the   *)
(* export run in progress (line 424).  At most MaxDispatched events are     *)
(* pending during the runs in progress, and the session is followed to the *)
(* end of its MaxExportRuns-th export run.                                 *)
(***************************************************************************)
Dispatch ==
    IF exporting = <<>>
    THEN export_runs < MaxExportRuns /\ dispatched' = 0
    ELSE dispatched < MaxDispatched /\ dispatched' = dispatched + 1

(***************************************************************************)
(* load_current_video, called with current_video_index already set to idx. *)
(* A file that does not open leaves everything but the path and the        *)
(* capture as it was.                                                      *)
(***************************************************************************)
DropAliases(stack) == [k \in 1..Len(stack) |-> [stack[k] EXCEPT !.alias = FALSE]]

load_current_video(files, idx) ==
    LET path == files[idx + 1] IN
    /\ current_video_path' = path
    /\ cap_opened' = isOpened(path)
    /\ IF ~isOpened(path)
       THEN /\ notice' = "Could not open video"
            /\ UNCHANGED <<total_frames, fps, video_duration, current_frame,
                           is_playing, segments, temp_start_time, exporting>>
       ELSE /\ total_frames' = CAP_PROP_FRAME_COUNT(path)
            /\ fps' = CAP_PROP_FPS(path)
            /\ video_duration' = (IF CAP_PROP_FPS(path)[1] > 0
                                  THEN <<CAP_PROP_FRAME_COUNT(path) * CAP_PROP_FPS(path)[2],
                                         CAP_PROP_FPS(path)[1]>>
                                  ELSE <<0, 1>>)
            /\ current_frame' = 0
            /\ is_playing' = FALSE
            /\ segments' = <<>>
            /\ temp_start_time' = None
            /\ exporting' = DropAliases(exporting)
            /\ notice' = "Loaded"

load_videos ==
    /\ Dispatch
    /\ video_files' = VideosDir
    /\ current_video_index' = 0
    /\ load_current_video(VideosDir, 0)
    /\ UNCHANGED <<threads, export_runs, diskVars>>

previous_video ==
    /\ Dispatch
    /\ IF Len(video_files) > 0 /\ current_video_index > 0
       THEN /\ current_video_index' = current_video_index - 1
            /\ load_current_video(video_files, current_video_index - 1)
       ELSE /\ notice' = "none"
            /\ UNCHANGED <<current_video_index, current_video_path, cap_opened,
                           total_frames, fps, video_duration, current_frame,
                           is_playing, segments, temp_start_time, exporting>>
    /\ UNCHANGED <<video_files, threads, export_runs, diskVars>>

next_video ==
    /\ Dispatch
    /\ IF Len(video_files) > 0 /\ current_video_index < Len(video_files) - 1
       THEN /\ current_video_index' = current_video_index + 1
            /\ load_current_video(video_files, current_video_index + 1)
       ELSE /\ notice' = "none"
            /\ UNCHANGED <<current_video_index, current_video_path, cap_opened,
                           total_frames, fps, video_duration, current_frame,
                           is_playing, segments, temp_start_time, exporting>>
    /\ UNCHANGED <<video_files, threads, export_runs, diskVars>>

(***************************************************************************)
(* Playback: toggle_play starts a play_loop thread when it turns playing    *)
(* on.  A thread is at the loop test ("check"), between the test and the   *)
(* increment ("inc"), or past the loop ("exit").                           *)
(***************************************************************************)
NumThreads == threads.check + threads.inc + threads.exit

toggle_play ==
    /\ Dispatch
    /\ is_playing \/ NumThreads < MaxThreads
    /\ is_playing' = ~is_playing
    /\ threads' = IF ~is_playing THEN [threads EXCEPT !.check = @ + 1] ELSE threads
    /\ notice' = "none"
    /\ UNCHANGED <<videoVars, current_frame, segments, temp_start_time,
                   exporting, export_runs, diskVars>>

\* while self.is_playing and self.current_frame < self.total_frames - 1:
play_loop_test ==
    /\ UNCHANGED dispatched
    /\ threads.check > 0
    /\ threads' = IF is_playing /\ current_frame < total_frames - 1
                  THEN [threads EXCEPT !.check = @ - 1, !.inc = @ + 1]
                  ELSE [threads EXCEPT !.check = @ - 1, !.exit = @ + 1]
    /\ UNCHANGED <<videoVars, is_playing, current_frame, segments,
                   temp_start_time, notice, exporting, export_runs, diskVars>>

\* self.current_frame += 1, then the sleep, then back to the test
play_loop_advance ==
    /\ UNCHANGED dispatched
    /\ threads.inc > 0
    /\ current_frame' = current_frame + 1
    /\ threads' = [threads EXCEPT !.inc = @ - 1, !.check = @ + 1]
    /\ UNCHANGED <<videoVars, is_playing, segments, temp_start_time, notice,
                   exporting, export_runs, diskVars>>

\* if self.current_frame >= self.total_frames - 1: self.is_playing = False
play_loop_end ==
    /\ UNCHANGED dispatched
    /\ threads.exit > 0
    /\ is_playing' = IF current_frame >= total_frames - 1 THEN FALSE ELSE is_playing
    /\ threads' = [threads EXCEPT !.exit = @ - 1]
    /\ UNCHANGED <<videoVars, current_frame, segments, temp_start_time, notice,
                   exporting, export_runs, diskVars>>

seek_forward ==
    /\ Dispatch
    /\ current_frame' = Min(current_frame + skip_frames, total_frames - 1)
    /\ notice' = "none"
    /\ UNCHANGED <<videoVars, is_playing, segments, temp_start_time, threads,
                   exporting, export_runs, diskVars>>

seek_backward ==
    /\ Dispatch
    /\ current_frame' = Max(current_frame - skip_frames, 0)
    /\ notice' = "none"
    /\ UNCHANGED <<videoVars, is_playing, segments, temp_start_time, threads,
                   exporting, export_runs, diskVars>>

\* int(progress / 100 * self.total_frames), only when not playing
on_progress_change(value) ==
    /\ Dispatch
    /\ current_frame' = IF ~is_playing THEN int(value * total_frames, 100)
                        ELSE current_frame
    /\ notice' = "none"
    /\ UNCHANGED <<videoVars, is_playing, segments, temp_start_time, threads,
                   exporting, export_runs, diskVars>>

(***************************************************************************)
(* The segment ledger.  append and pop change the list object in place, so *)
(* an export run that iterates the same object sees them; an assignment    *)
(* self.segments = [] leaves the object a run iterates as it was.          *)
(***************************************************************************)
current_time == TimeOf(current_frame, fps)

InPlace(stack, list) ==
    [k \in 1..Len(stack) |->
        IF stack[k].alias THEN [stack[k] EXCEPT !.lst = list] ELSE stack[k]]

\* current_time <= self.temp_start_time
end_before_start_strict == TimeLess(current_time, temp_start_time)
end_before_start == TimeLeq(current_time, temp_start_time)

\* self.segments.append(item); self.temp_start_time = None
append_keeps_pending(list, item, pending) == <<Append(list, item), pending>>
append(list, item, pending) == <<Append(list, item), None>>

\* self.segments.pop()
pop_first(list) == Tail(list)
pop(list) == SubSeq(list, 1, Len(list) - 1)

\* self.segments = []; self.temp_start_time = None
clear_keeps_pending(pending) == <<<<>>, pending>>
clear(pending) == <<<<>>, None>>

mark_start ==
    /\ Dispatch
    /\ temp_start_time' = current_time
    /\ notice' = "Marked start"
    /\ UNCHANGED <<videoVars, is_playing, current_frame, segments, threads,
                   exporting, export_runs, diskVars>>

mark_end ==
    /\ Dispatch
    /\ IF temp_start_time = None
       THEN /\ notice' = "Please mark the start time first!"
            /\ UNCHANGED <<segments, temp_start_time, exporting>>
       ELSE IF end_before_start
       THEN /\ notice' = "End time must be after start time!"
            /\ UNCHANGED <<segments, temp_start_time, exporting>>
       ELSE /\ Len(segments) < MaxSegments
            /\ segments' = append(segments, <<temp_start_time, current_time>>,
                                   temp_start_time)[1]
            /\ temp_start_time' = append(segments, <<temp_start_time, current_time>>,
                                          temp_start_time)[2]
            /\ exporting' = InPlace(exporting, segments')
            /\ notice' = "Added segment"
    /\ UNCHANGED <<videoVars, is_playing, current_frame, threads, export_runs,
                   diskVars>>

clear_last_segment ==
    /\ Dispatch
    /\ IF segments # <<>>
       THEN /\ segments' = pop(segments)
            /\ exporting' = InPlace(exporting, segments')
            /\ notice' = "Removed segment"
       ELSE /\ notice' = "No segments to remove!"
            /\ UNCHANGED <<segments, exporting>>
    /\ UNCHANGED <<videoVars, is_playing, current_frame, temp_start_time,
                   threads, export_runs, diskVars>>

clear_all_segments ==
    /\ Dispatch
    /\ IF segments # <<>>
       THEN /\ segments' = clear(temp_start_time)[1]
            /\ temp_start_time' = clear(temp_start_time)[2]
            /\ exporting' = DropAliases(exporting)
            /\ notice' = "Cleared all"
       ELSE /\ notice' = "No segments to clear!"
            /\ UNCHANGED <<segments, temp_start_time, exporting>>
    /\ UNCHANGED <<videoVars, is_playing, current_frame, threads, export_runs,
                   diskVars>>

(***************************************************************************)
(* Export.  export_segments runs on the UI thread; in every iteration it    *)
(* calls self.root.update(), which dispatches the events that are pending, *)
(* so handlers run inside the call.  A call in progress is a record: the   *)
(* stem taken at line 416, the entry and index the loop head fetched, the  *)
(* list object the loop iterates, and whether self.segments still is that  *)
(* object.  The record stands at the root.update() of its iteration.       *)
(***************************************************************************)
segment_name(video_name, i) == <<video_name, i + 1>>

export_segments ==
    /\ IF segments = <<>>
       THEN /\ notice' = "No segments marked for export!"
            /\ UNCHANGED <<exporting, export_runs>>
       ELSE /\ Len(exporting) < MaxExportDepth
            /\ export_runs < MaxExportRuns
            /\ exporting' = Append(exporting,
                                   [video_name |-> current_video_path,
                                    item |-> segments[1], i |-> 0,
                                    lst |-> segments, alias |-> TRUE])
            /\ export_runs' = export_runs + 1
            /\ notice' = "Exporting segment"
    /\ dispatched' = dispatched
    /\ UNCHANGED <<videoVars, is_playing, current_frame, segments,
                   temp_start_time, threads, diskVars>>

\* create_segment_video: the number of frames written to the clip
clip_frames(path, start_time, end_time) ==
    LET f == CAP_PROP_FPS(path)
        start_frame == FrameOf(start_time, f)
        end_frame == FrameOf(end_time, f)
        available == Max(0, CAP_PROP_FRAME_COUNT(path) - Max(start_frame, 0))
    IN  Min(Max(0, end_frame - start_frame), available)

\* extract_segment_frames: the folder after frame_count frames were written
extract_segment_frames(folders, name, frame_count, path, start_time, end_time) ==
    LET old == IF name \in DOMAIN folders THEN folders[name].frames ELSE {}
        new == [frames |-> old \cup (1..frame_count),
                metadata |-> [original_video |-> path,
                              segment_start_time |-> start_time,
                              segment_end_time |-> end_time,
                              extracted_frames |-> frame_count]]
    IN  [n \in DOMAIN folders \cup {name} |-> IF n = name THEN new ELSE folders[n]]

\* output_dir.mkdir(parents=True, exist_ok=True)
mkdir(folders, name) ==
    IF name \in DOMAIN folders THEN folders
    ELSE [n \in DOMAIN folders \cup {name} |->
            IF n = name THEN [frames |-> {}, metadata |-> None] ELSE folders[n]]

WriteClip(clips, name, frame_count) ==
    [n \in DOMAIN clips \cup {name} |-> IF n = name THEN frame_count ELSE clips[n]]

Pop(stack) == SubSeq(stack, 1, Len(stack) - 1)

\* The rest of one iteration, after root.update() returned, and the loop head.
\* A clip that no frame was written to does not open when the source did not
\* open (the writer had no frame size); whether cv2 opens an empty clip of a
\* source that did open is left open.
export_iteration ==
    /\ exporting # <<>>
    /\ LET run == exporting[Len(exporting)]
           name == segment_name(run.video_name, run.i)
           frame_count == clip_frames(current_video_path, run.item[1], run.item[2])
       IN
       /\ segment_videos' = WriteClip(segment_videos, name, frame_count)
       /\ \E opened \in (IF frame_count > 0 THEN {TRUE}
                          ELSE IF ~isOpened(current_video_path) THEN {FALSE}
                          ELSE BOOLEAN) :
            IF ~opened
            THEN /\ segment_frames' = mkdir(segment_frames, name)
                 /\ exporting' = Pop(exporting)
                 /\ notice' = "Export failed"
            ELSE /\ segment_frames' = extract_segment_frames(segment_frames, name,
                                          frame_count, current_video_path,
                                          run.item[1], run.item[2])
                 /\ IF run.i + 1 < Len(run.lst)
                    THEN /\ exporting' = [exporting EXCEPT ![Len(exporting)] =
                                            [run EXCEPT !.item = run.lst[run.i + 2],
                                                        !.i = run.i + 1]]
                         /\ notice' = "Exporting segment"
                    ELSE /\ exporting' = Pop(exporting)
                         /\ notice' = "Exported"
    /\ frames_dir' = [frames_dir EXCEPT !.exists = TRUE]
    /\ UNCHANGED <<videoVars, is_playing, current_frame, segments,
                   temp_start_time, threads, export_runs, dispatched,
                   unified_dataset, unifying, unify_runs>>

(***************************************************************************)
(* The dataset unifier.  create_unified_dataset runs on the UI thread and  *)
(* calls self.root.update() once per segment folder; a call in progress is *)
(* a record that stands at the root.update() of its next iteration.  The   *)
(* record also keeps which destination files the call has copied.          *)
(***************************************************************************)
NoDataset ==
    [exists |-> FALSE, images_dir |-> FALSE, metadata_dir |-> FALSE,
     images |-> {}, metadata |-> <<>>, summary |-> None, frame_list |-> None]

\* The place of a stem in the sorted folder listing.
StemRank(v) == CHOOSE k \in 1..Len(VideosDir) : VideosDir[k] = v

\* <stem>_segment_<i> sorts before <stem'>_segment_<i'>
FolderBefore(m, n) ==
    StemRank(m[1]) < StemRank(n[1]) \/ (m[1] = n[1] /\ m[2] < n[2])

\* segment_folders.sort()
RECURSIVE sorted(_)
sorted(S) ==
    IF S = {} THEN <<>>
    ELSE LET first == CHOOSE m \in S : \A n \in S \ {m} : FolderBefore(m, n)
         IN  <<first>> \o sorted(S \ {first})

\* [f for f in frames_dir.iterdir() if f.is_dir()], sorted
segment_folders == sorted(DOMAIN segment_frames)

\* the three mkdir(exist_ok=True) calls of lines 525-529
dataset_mkdirs(dataset) ==
    [dataset EXCEPT !.exists = TRUE, !.images_dir = TRUE, !.metadata_dir = TRUE]

\* What one frame copy can do: shutil.copy2 succeeds; it fails and
\* shutil.copy succeeds; or both fail and the frame is skipped.
CopyOutcomes == {"copy2", "copy", "skip"}

\* frames_in_segment after the copy loop: one increment per copy2 that
\* succeeded and one per fallback copy that succeeded
frames_copied_primary_only(outcome) ==
    Cardinality({k \in DOMAIN outcome : outcome[k] = "copy2"})
frames_copied(outcome) ==
    Cardinality({k \in DOMAIN outcome : outcome[k] = "copy2"})
      + Cardinality({k \in DOMAIN outcome : outcome[k] = "copy"})

create_unified_dataset ==
    /\ Dispatch
    /\ unifying = None
    /\ unify_runs < MaxUnifyRuns
    /\ unify_runs' = unify_runs + 1
    /\ IF ~frames_dir.exists \/ (DOMAIN segment_frames = {} /\ ~frames_dir.files)
       THEN /\ notice' = "No extracted frames found!"
            /\ UNCHANGED <<unified_dataset, unifying>>
       ELSE /\ unified_dataset' = dataset_mkdirs(unified_dataset)
            /\ IF segment_folders = <<>>
               THEN /\ notice' = "No segment frame folders found!"
                    /\ UNCHANGED unifying
               ELSE /\ unifying' = [segment_folders |-> segment_folders, i |-> 0,
                                    total_frames_copied |-> 0, segments |-> <<>>,
                                    copied |-> {}, skipped |-> {}]
                    /\ notice' = "Creating unified dataset..."
    /\ UNCHANGED <<videoVars, is_playing, current_frame, segments,
                   temp_start_time, threads, exporting, export_runs,
                   segment_videos, segment_frames, frames_dir>>

\* One iteration of the folder loop (lines 551-600).
unify_segment ==
    /\ unifying # None
    /\ unifying.i < Len(unifying.segment_folders)
    /\ LET folder_name == unifying.segment_folders[unifying.i + 1]
           folder == segment_frames[folder_name]
           frame_files == folder.frames
       IN  \E outcome \in [frame_files -> CopyOutcomes] :
             LET written == {<<folder_name, k>> : k \in {j \in frame_files : outcome[j] # "skip"}}
                 lost == {<<folder_name, k>> : k \in {j \in frame_files : outcome[j] = "skip"}}
                 frames_in_segment == frames_copied(outcome)
                 segment_info == [segment_name |-> folder_name,
                                  frames_count |-> frames_in_segment,
                                  metadata |-> folder.metadata]
             IN  /\ unified_dataset' =
                       [unified_dataset EXCEPT
                          !.images = @ \cup written,
                          !.metadata = IF folder.metadata = None THEN @
                                       ELSE [n \in DOMAIN @ \cup {folder_name} |->
                                               IF n = folder_name THEN folder.metadata
                                               ELSE @[n]]]
                 /\ unifying' =
                       [unifying EXCEPT
                          !.i = @ + 1,
                          !.total_frames_copied = @ + frames_in_segment,
                          !.segments = Append(@, segment_info),
                          !.copied = @ \cup written,
                          !.skipped = @ \cup lost]
    /\ notice' = "Processing segment"
    /\ UNCHANGED <<videoVars, is_playing, current_frame, segments,
                   temp_start_time, threads, exporting, export_runs, dispatched,
                   segment_videos, segment_frames, frames_dir, unify_runs>>

\* After the loop: dataset_summary.json, then frame_list.txt read back from
\* the images directory (lines 602-635).
unify_finish ==
    /\ unifying # None
    /\ unifying.i = Len(unifying.segment_folders)
    /\ unified_dataset' =
          [unified_dataset EXCEPT
             !.summary = [total_frames |-> unifying.total_frames_copied,
                          total_segments |-> Len(unifying.segment_folders),
                          segments |-> unifying.segments],
             !.frame_list = unified_dataset.images]
    /\ unifying' = None
    /\ notice' = "Unified dataset created"
    /\ UNCHANGED <<videoVars, is_playing, current_frame, segments,
                   temp_start_time, threads, exporting, export_runs, dispatched,
                   segment_videos, segment_frames, frames_dir, unify_runs>>

(***************************************************************************)
(* Between two runs the user can change what the unifier finds on disk:    *)
(* delete a segment folder, or add an empty one.                           *)
(***************************************************************************)
FolderNames == {<<"a", 1>>, <<"b", 1>>, <<"c", 1>>}

RemoveFolder(name) ==
    /\ unifying = None
    /\ name \in DOMAIN segment_frames
    /\ segment_frames' = [n \in DOMAIN segment_frames \ {name} |-> segment_frames[n]]
    /\ UNCHANGED <<videoVars, is_playing, current_frame, segments,
                   temp_start_time, threads, notice, exporting, export_runs,
                   dispatched, segment_videos, unifyVars>>

AddFolder(name) ==
    /\ unifying = None
    /\ frames_dir.exists
    /\ name \notin DOMAIN segment_frames
    /\ segment_frames' = mkdir(segment_frames, name)
    /\ UNCHANGED <<videoVars, is_playing, current_frame, segments,
                   temp_start_time, threads, notice, exporting, export_runs,
                   dispatched, segment_videos, unifyVars>>

\* What the exporter can have left in the folder <stem>_segment_<i>: the bare
\* folder of an export that failed, or the frames and the metadata of a
\* segment of n frames of the video that starts at the first frame.
FolderContents(name) ==
    {mkdir(<<>>, name)[name]} \cup
    (IF isOpened(name[1])
     THEN {extract_segment_frames(<<>>, name, n, name[1],
                                  TimeOf(0, CAP_PROP_FPS(name[1])),
                                  TimeOf(n, CAP_PROP_FPS(name[1])))[name] :
             n \in 1..Min(MaxFolderFrames, CAP_PROP_FRAME_COUNT(name[1]))}
     ELSE {})

Layouts ==
    {f \in UNION {[S -> UNION {FolderContents(n) : n \in FolderNames}] :
                    S \in SUBSET FolderNames} :
        \A n \in DOMAIN f : f[n] \in FolderContents(n)}

(***************************************************************************)
(* The state after __init__, which ends with load_videos: the first file   *)
(* of the folder is the current video, and when it did not open the        *)
(* fields keep the values __init__ gave them.                              *)
(***************************************************************************)
Init ==
    /\ video_files = VideosDir
    /\ current_video_index = 0
    /\ current_video_path = VideosDir[1]
    /\ cap_opened = isOpened(VideosDir[1])
    /\ total_frames = (IF isOpened(VideosDir[1])
                       THEN CAP_PROP_FRAME_COUNT(VideosDir[1]) ELSE 0)
    /\ fps = (IF isOpened(VideosDir[1])
              THEN CAP_PROP_FPS(VideosDir[1]) ELSE <<InitialFps, 1>>)
    /\ video_duration = (IF isOpened(VideosDir[1]) /\ CAP_PROP_FPS(VideosDir[1])[1] > 0
                         THEN <<CAP_PROP_FRAME_COUNT(VideosDir[1]) * CAP_PROP_FPS(VideosDir[1])[2],
                                CAP_PROP_FPS(VideosDir[1])[1]>>
                         ELSE <<0, 1>>)
    /\ is_playing = FALSE
    /\ current_frame = 0
    /\ segments = <<>>
    /\ temp_start_time = None
    /\ threads = [check |-> 0, inc |-> 0, exit |-> 0]
    /\ notice = (IF isOpened(VideosDir[1]) THEN "Loaded" ELSE "Could not open video")
    /\ exporting = <<>>
    /\ export_runs = 0
    /\ dispatched = 0
    /\ segment_videos = <<>>
    /\ segment_frames = <<>>
    /\ frames_dir = [exists |-> TRUE, files |-> FALSE]
    /\ unified_dataset = NoDataset
    /\ unifying = None
    /\ unify_runs = 0

\* The handlers of the navigation, seek and annotation buttons and the scrub bar.
Handlers ==
    \/ load_videos
    \/ previous_video
    \/ next_video
    \/ seek_forward
    \/ seek_backward
    \/ \E value \in ProgressValues : on_progress_change(value)
    \/ mark_start
    \/ mark_end
    \/ clear_last_segment
    \/ clear_all_segments

\* Playback, seeking, the ledger and navigation: no export is started.
Next ==
    \/ Handlers
    \/ toggle_play
    \/ play_loop_test
    \/ play_loop_advance
    \/ play_loop_end

Spec == Init /\ [][Next]_vars

\* The ledger, seeking and navigation while stopped: the play button is not
\* used and no export is started.
SpecLedger == Init /\ [][Handlers]_vars

\* The ledger, the scrub bar, navigation and export: playback is never
\* started and the seek buttons are not used.
NextExport ==
    \/ load_videos
    \/ previous_video
    \/ next_video
    \/ \E value \in ProgressValues : on_progress_change(value)
    \/ mark_start
    \/ mark_end
    \/ clear_last_segment
    \/ clear_all_segments
    \/ export_segments
    \/ export_iteration

SpecExport == Init /\ [][NextExport]_vars

\* The unifier on the folders earlier exports have left: the state of the
\* application is the one after __init__, the frames directory holds any of
\* the layouts, and only the Create Dataset button and the file manager are
\* used.
InitUnify ==
    /\ video_files = VideosDir
    /\ current_video_index = 0
    /\ current_video_path = VideosDir[1]
    /\ cap_opened = isOpened(VideosDir[1])
    /\ total_frames = 0
    /\ fps = <<InitialFps, 1>>
    /\ video_duration = <<0, 1>>
    /\ is_playing = FALSE
    /\ current_frame = 0
    /\ segments = <<>>
    /\ temp_start_time = None
    /\ threads = [check |-> 0, inc |-> 0, exit |-> 0]
    /\ notice = "Could not open video"
    /\ exporting = <<>>
    /\ export_runs = 0
    /\ dispatched = 0
    /\ segment_frames \in Layouts
    /\ segment_videos = [n \in DOMAIN segment_frames |->
                            Cardinality(segment_frames[n].frames)]
    /\ frames_dir \in {d \in [exists : BOOLEAN, files : BOOLEAN] :
                         ~d.exists => (~d.files /\ DOMAIN segment_frames = {})}
    /\ unified_dataset = NoDataset
    /\ unifying = None
    /\ unify_runs = 0

NextUnify ==
    \/ create_unified_dataset
    \/ unify_segment
    \/ unify_finish
    \/ \E name \in FolderNames : RemoveFolder(name)
    \/ \E name \in FolderNames : AddFolder(name)

SpecUnify == InitUnify /\ [][NextUnify]_vars

\* Playback with the scheduler being fair to the playback threads: a thread
\* that can take its next step eventually takes it.  The user loads videos,
\* drags the scrub bar and presses the play button.
NextPlay ==
    \/ previous_video
    \/ next_video
    \/ \E value \in ProgressValues : on_progress_change(value)
    \/ toggle_play
    \/ play_loop_test
    \/ play_loop_advance
    \/ play_loop_end

SpecPlay ==
    /\ Init
    /\ [][NextPlay]_vars
    /\ WF_vars(play_loop_test)
    /\ WF_vars(play_loop_advance)
    /\ WF_vars(play_loop_end)

\* A step of a button or of the scrub bar.
UserAction == Handlers \/ toggle_play

(***************************************************************************)
(* Properties.                                                             *)
(***************************************************************************)
progVars == <<videoVars, is_playing, current_frame, segments, temp_start_time,
              threads, exporting, diskVars>>

\* C1: with a video of at least one frame loaded, the current frame index
\* is at least 0 and below the total frame count in every reachable state.
C1_FrameIndexInRange ==
    (cap_opened /\ total_frames >= 1) =>
        (0 <= current_frame /\ current_frame < total_frames)

\* C2: while playing, a seek forward, a seek backward and a scrub-bar change
\* leave the current frame index unchanged.
C2_SeeksIgnoredWhilePlaying ==
    [][(is_playing /\ (seek_forward \/ seek_backward
                       \/ \E value \in ProgressValues : on_progress_change(value)))
         => current_frame' = current_frame]_vars

\* C3: markEnd reports NoStartMarked when there is no pending mark and
\* InvalidRange when the current time is at most the pending start, and in
\* both cases changes nothing of the ledger, the pending mark, the playback
\* state, the video state and the disk.
C3_MarkEndFailureIsNoOp ==
    [][mark_end =>
        /\ (temp_start_time = None => notice' = "Please mark the start time first!")
        /\ (temp_start_time # None
              /\ TimeLeq(TimeOf(current_frame, fps), temp_start_time)
                => notice' = "End time must be after start time!")
        /\ (temp_start_time = None
              \/ TimeLeq(TimeOf(current_frame, fps), temp_start_time)
                => UNCHANGED progVars)]_vars

C3_Witness ==
    /\ notice = "End time must be after start time!"
    /\ temp_start_time # None
    /\ segments # <<>>

\* C4: markStart records the current time as the pending mark whatever was
\* pending before; a successful markEnd appends exactly the entry (pending
\* start, current time) as the last entry, leaves the earlier entries alone
\* and clears the pending mark, so that a markEnd right after it reports
\* NoStartMarked and adds nothing.
C4_MarkEndAppends ==
    [][/\ mark_start => temp_start_time' = TimeOf(current_frame, fps)
       /\ (mark_end /\ temp_start_time # None
             /\ ~TimeLeq(TimeOf(current_frame, fps), temp_start_time)) =>
            /\ Len(segments') = Len(segments) + 1
            /\ segments'[Len(segments')] = <<temp_start_time, TimeOf(current_frame, fps)>>
            /\ \A k \in 1..Len(segments) : segments'[k] = segments[k]
            /\ temp_start_time' = None
       /\ (mark_end /\ notice = "Added segment") =>
            /\ notice' = "Please mark the start time first!"
            /\ segments' = segments]_vars

C4_Witness ==
    /\ notice = "Added segment"
    /\ Len(segments) = 2
    /\ segments[1] # segments[2]
    /\ temp_start_time = None

\* C5: every segment of the ledger has start < end, 0 <= start and
\* end <= the duration of the loaded video.
C5_SegmentsWithinVideo ==
    \A k \in 1..Len(segments) :
        /\ TimeLess(segments[k][1], segments[k][2])
        /\ segments[k][1][1] >= 0
        /\ TimeLeq(segments[k][2], video_duration)

\* C6 as stated: after clearAll the ledger is empty and no mark is pending.
C6_ClearAllClearsPending ==
    [][clear_all_segments => (segments' = <<>> /\ temp_start_time' = None)]_vars

\* C6 as amended: clearAll on a non-empty ledger empties the ledger and
\* clears the pending mark; on an empty ledger it reports that there is
\* nothing to clear and changes nothing, so a pending mark stays pending.
C6_ClearAllAmended ==
    [][clear_all_segments =>
        IF segments # <<>>
        THEN segments' = <<>> /\ temp_start_time' = None
        ELSE notice' = "No segments to clear!" /\ UNCHANGED progVars]_vars

C6_Witness ==
    /\ notice = "No segments to clear!"
    /\ segments = <<>>
    /\ temp_start_time # None

\* C7: clearLast on a ledger of N >= 1 entries leaves exactly the first N-1
\* entries, in their order, and does not touch the pending mark; on an empty
\* ledger it reports NothingToClear and changes nothing.
C7_ClearLastRemovesLast ==
    [][clear_last_segment =>
        IF segments # <<>>
        THEN /\ Len(segments') = Len(segments) - 1
             /\ \A k \in 1..Len(segments') : segments'[k] = segments[k]
             /\ temp_start_time' = temp_start_time
        ELSE notice' = "No segments to remove!" /\ UNCHANGED progVars]_vars

C7_Witness ==
    /\ notice = "Removed segment"
    /\ Len(segments) = 1
    /\ temp_start_time # None

\* C8: whenever the current video changes, the ledger becomes empty and the
\* pending mark absent.
C8_LedgerScopedToVideo ==
    [][current_video_path' # current_video_path =>
         (segments' = <<>> /\ temp_start_time' = None)]_vars

\* C9: an export run writes the ledger entry at 1-based position i to the
\* clip and the frame folder <stem>_segment_<i>, where stem is the stem of
\* the current video.
C9_ExportNamesByPosition ==
    [][export_iteration =>
        LET run == exporting[Len(exporting)] IN
        /\ run.video_name = current_video_path
        /\ run.i + 1 <= Len(segments)
        /\ segments[run.i + 1] = run.item]_vars

\* C10: after an export run that completed without error (and without any
\* handler dispatched during it), the frame folder of every ledger entry
\* (start, end) holds exactly the frames 1..N and its metadata records
\* extracted_frames = N, where N = floor(end*fps) - floor(start*fps) when
\* the source does not end before the segment's end.
C10_FramesMatchSegment ==
    (notice = "Exported" /\ dispatched = 0) =>
        \A k \in 1..Len(segments) :
            LET name == <<current_video_path, k>>
                start_frame == FrameOf(segments[k][1], fps)
                end_frame == FrameOf(segments[k][2], fps)
            IN  /\ name \in DOMAIN segment_frames
                /\ end_frame <= total_frames =>
                     /\ segment_frames[name].frames = 1..(end_frame - start_frame)
                     /\ segment_frames[name].metadata # None
                     /\ segment_frames[name].metadata.extracted_frames
                          = end_frame - start_frame

RECURSIVE SumFramesCount(_)
SumFramesCount(infos) ==
    IF infos = <<>> THEN 0
    ELSE infos[1].frames_count + SumFramesCount(Tail(infos))

RECURSIVE FramesInFolders(_)
FramesInFolders(folders) ==
    IF DOMAIN folders = {} THEN 0
    ELSE LET n == CHOOSE m \in DOMAIN folders : TRUE
         IN  Cardinality(folders[n].frames)
               + FramesInFolders([m \in DOMAIN folders \ {n} |-> folders[m]])

\* C11: a unification run that started goes through every segment folder
\* and writes a summary whose total_segments is the number of segment
\* folders, empty ones included, and whose total_frames is the number of
\* frames copied by the primary or by the fallback primitive, which is the
\* sum of the per-segment frames_count; when no copy failed twice,
\* total_frames is the number of frames in the folders, so an added empty
\* folder raises total_segments by one and leaves total_frames as it was.
C11_SummaryCounts ==
    [][unify_finish =>
        LET summary == unified_dataset'.summary IN
        /\ summary.total_segments = Cardinality(DOMAIN segment_frames)
        /\ Len(summary.segments) = summary.total_segments
        /\ {summary.segments[k].segment_name : k \in 1..Len(summary.segments)}
             = DOMAIN segment_frames
        /\ summary.total_frames = Cardinality(unifying.copied)
        /\ summary.total_frames = SumFramesCount(summary.segments)
        /\ unifying.skipped = {} =>
             summary.total_frames = FramesInFolders(segment_frames)]_vars

C11_Witness ==
    /\ notice = "Unified dataset created"
    /\ unified_dataset.summary # None
    /\ unified_dataset.summary.total_segments = 3
    /\ \E k \in 1..Len(unified_dataset.summary.segments) :
          unified_dataset.summary.segments[k].frames_count = 0
    /\ unified_dataset.summary.total_frames > 0
    /\ unified_dataset.summary.total_frames < FramesInFolders(segment_frames)

\* C12: when the frames directory does not exist or holds no segment
\* folder, create-unified-dataset reports the failure and creates or changes
\* no directory and no file: unified_dataset, unified_dataset/images and
\* unified_dataset/metadata are as they were before the call.
C12_NoFoldersNoMutation ==
    [][(create_unified_dataset
          /\ (~frames_dir.exists \/ DOMAIN segment_frames = {})) =>
         /\ notice' \in {"No extracted frames found!",
                         "No segment frame folders found!"}
         /\ unifying' = None
         /\ unified_dataset' = unified_dataset
         /\ UNCHANGED <<segment_videos, segment_frames, frames_dir>>]_vars

\* C13: the metadata record of a segment frame folder, once written, never
\* changes: no later markStart, markEnd, clearLast, clearAll or export on
\* the same video (here: with no handler dispatched inside an export run)
\* rewrites it with another content.
C13_RecordWrittenOnce ==
    [][dispatched = 0 =>
         \A n \in DOMAIN segment_frames :
            segment_frames[n].metadata # None =>
               /\ n \in DOMAIN segment_frames'
               /\ segment_frames'[n].metadata = segment_frames[n].metadata]_vars

\* C14: at most one playback advance loop is alive at any time; in
\* particular no reachable state has two loops that have both passed the
\* flag check and are both about to increment the current frame index.
C14_SingleAdvanceLoop == threads.inc <= 1

\* C15: after a video was loaded and with no user action since, the state
\* is frame 0 and paused, also when a playback loop was running at the time
\* of the load.
C15_LoadResetsPlayback ==
    notice = "Loaded" => (current_frame = 0 /\ ~is_playing)

\* C16: between the start and the end of an export run no UI action is
\* executed: the ledger and the current video are unchanged during the run.
C16_ExportBlocksHandlers ==
    [][exporting # <<>> =>
         /\ segments' = segments
         /\ temp_start_time' = temp_start_time
         /\ current_video_path' = current_video_path
         /\ current_frame' = current_frame]_vars

\* C18: after a unification run in which no frame copy failed, whatever
\* exports, folder removals and unification runs preceded it, the images
\* directory holds exactly one file <folder>_<frame> per frame now present
\* in the segment folders, and frame_list.txt lists as many files as
\* total_frames of dataset_summary.json says.
C18_ImagesMatchFolders ==
    [][(unify_finish /\ unifying.skipped = {}) =>
         /\ unified_dataset'.images =
               UNION {{<<n, k>> : k \in segment_frames[n].frames} :
                        n \in DOMAIN segment_frames}
         /\ Cardinality(unified_dataset'.frame_list)
               = unified_dataset'.summary.total_frames]_vars

\* C17: when playback is playing on an opened video and the user stops
\* acting, the playback loop eventually stops playback by itself, for good,
\* and when it does so the current frame index is the last frame,
\* total_frames - 1.
C17_PlaybackReachesEnd ==
    /\ ([]<><<UserAction>>_vars \/ <>[](~is_playing))
    /\ [][(play_loop_end /\ is_playing /\ ~is_playing'
             /\ cap_opened /\ total_frames >= 1)
            => current_frame' = total_frames - 1]_vars

====
